---- MODULE Spec2Model ----
(***************************************************************************)
(* Model of the SEC-Helper "Basic" module: the Hierarchy Builder           *)
(* (Basic._fetch_materials / utils.parse_material), the Resource Flattener *)
(* (utils.parse_resource) and the Cascade Controller                       *)
(* (Basic._on_option_change and its helpers).                              *)
(*                                                                         *)
(* Python values are represented as follows.                               *)
(*   dict    : [ord |-> sequence of keys in insertion order,               *)
(*              map |-> function from the keys to the values]              *)
(*   None    : NoneVal                                                     *)
(*   str     : a TLA+ string; a tag-path string is a sequence of tokens    *)
(*             in which the token "/" is the separator character           *)
(*   raise   : an operator that can raise returns a record with a field    *)
(*             exc naming the exception ("" when it returned normally)     *)
(***************************************************************************)
EXTENDS Integers, Sequences, FiniteSets, TLC

(***************************************************************************)
(* Python values                                                           *)
(***************************************************************************)
NoneVal == [none |-> TRUE]

IsNone(x) == "none" \in DOMAIN x

EmptyDict == [ord |-> << >>, map |-> [k \in {} |-> NoneVal]]

\* d[k] = v : a new key goes to the end, an existing key keeps its place
DictSet(d, k, v) ==
  [ord |-> IF k \in DOMAIN d.map THEN d.ord ELSE Append(d.ord, k),
   map |-> [x \in (DOMAIN d.map) \cup {k} |-> IF x = k THEN v ELSE d.map[x]]]

DictKeys(d) == DOMAIN d.map

\* list(d.values())
DictValues(d) == [i \in 1..Len(d.ord) |-> d.map[d.ord[i]]]

\* Python truthiness of a dict-or-None value
Falsy(d) == IsNone(d) \/ Len(d.ord) = 0

IsResource(n) == "id" \in DOMAIN n

IsCategory(n) == "tag_name" \in DOMAIN n

(***************************************************************************)
(* utils.parse_material                                                    *)
(* A hierarchy payload is a sequence of entries [children |-> sequence of  *)
(* [tag_id, tag_name, hierarchies]].                                       *)
(***************************************************************************)
RECURSIVE parse_material(_)
RECURSIVE ParseChildren(_, _, _)
RECURSIVE ParseEntries(_, _, _)

\* the inner loop "for c in m['children']" from position i, accumulating
ParseChildren(cs, i, parsed) ==
  IF i > Len(cs) THEN parsed
  ELSE ParseChildren(cs, i + 1,
         DictSet(parsed, cs[i].tag_id,
                 [tag_name |-> cs[i].tag_name,
                  children |-> parse_material(cs[i].hierarchies)]))

\* the outer loop "for m in materials" from position i, accumulating
ParseEntries(ms, i, parsed) ==
  IF i > Len(ms) THEN parsed
  ELSE ParseEntries(ms, i + 1, ParseChildren(ms[i].children, 1, parsed))

parse_material(materials) ==
  IF Len(materials) = 0 THEN NoneVal ELSE ParseEntries(materials, 1, EmptyDict)

(***************************************************************************)
(* utils.parse_resource                                                    *)
(* Returns [exc, val]: exc = "AttributeError" when .values() is called on  *)
(* None, at this level or at a nested one.                                 *)
(***************************************************************************)
RECURSIVE parse_resource(_)
RECURSIVE ParseResLoop(_, _, _)
RECURSIVE DictUpdateFrom(_, _, _)

\* parsed.update(children), from position i of children's keys
DictUpdateFrom(d, e, i) ==
  IF i > Len(e.ord) THEN d
  ELSE DictUpdateFrom(DictSet(d, e.ord[i], e.map[e.ord[i]]), e, i + 1)

DictUpdate(d, e) == DictUpdateFrom(d, e, 1)

\* line 64: parsed[res["id"]] = res
StoreKeepFirst(parsed, res) ==
  IF res.id \in DictKeys(parsed) THEN parsed ELSE DictSet(parsed, res.id, res)

Store(parsed, res) == DictSet(parsed, res.id, res)

ParseResLoop(vals, i, parsed) ==
  IF i > Len(vals) THEN [exc |-> "", val |-> parsed]
  ELSE LET res == vals[i] IN
       IF "id" \in DOMAIN res
         THEN ParseResLoop(vals, i + 1, Store(parsed, res))
       ELSE IF "children" \in DOMAIN res
         THEN LET children == parse_resource(res.children) IN
              IF children.exc # "" THEN children
              ELSE ParseResLoop(vals, i + 1, DictUpdate(parsed, children.val))
       ELSE ParseResLoop(vals, i + 1, parsed)

parse_resource(materials) ==
  IF IsNone(materials) THEN [exc |-> "AttributeError", val |-> EmptyDict]
  ELSE ParseResLoop(DictValues(materials), 1, EmptyDict)

(***************************************************************************)
(* str.split("/") on a tag-path string.  A string is a sequence of tokens; *)
(* the token "/" is the separator, every other token is a run of           *)
(* characters.  A segment made of one token is that token, an empty        *)
(* segment is "", and a segment of several tokens is a name that is no     *)
(* tag id (LongSegment).                                                   *)
(***************************************************************************)
LongSegment == "<long>"

SegKey(seg) == IF Len(seg) = 0 THEN ""
               ELSE IF Len(seg) = 1 THEN seg[1] ELSE LongSegment

RECURSIVE SplitFrom(_, _, _, _)
SplitFrom(s, i, cur, acc) ==
  IF i > Len(s) THEN Append(acc, SegKey(cur))
  ELSE IF s[i] = "/" THEN SplitFrom(s, i + 1, << >>, Append(acc, SegKey(cur)))
  ELSE SplitFrom(s, i + 1, Append(cur, s[i]), acc)

Split(s) == SplitFrom(s, 1, << >>, << >>)

(***************************************************************************)
(* Phase B of Basic._fetch_materials: the body of "for res in res_data".   *)
(* A position in the tree is the sequence of keys leading to it from the   *)
(* top-level mapping.                                                      *)
(***************************************************************************)
RECURSIVE GetNode(_, _)
GetNode(d, kp) ==
  IF Len(kp) = 1 THEN d.map[kp[1]]
  ELSE GetNode(d.map[kp[1]].children, Tail(kp))

\* the tree with the children of the node at kp replaced by c
RECURSIVE SetChildren(_, _, _)
SetChildren(d, kp, c) ==
  LET n == d.map[kp[1]] IN
  IF Len(kp) = 1 THEN DictSet(d, kp[1], [n EXCEPT !.children = c])
  ELSE DictSet(d, kp[1], [n EXCEPT !.children = SetChildren(n.children, Tail(kp), c)])

\* "for path in res_paths: temp = temp['children'].get(path, temp)" from
\* position i; kp is the position of temp_materials
RECURSIVE Walk(_, _, _, _)
Walk(materials, res_paths, i, kp) ==
  IF i > Len(res_paths) THEN [exc |-> "", kp |-> kp]
  ELSE LET temp == GetNode(materials, kp) IN
       IF "children" \notin DOMAIN temp THEN [exc |-> "KeyError", kp |-> kp]
       ELSE IF IsNone(temp.children) THEN [exc |-> "AttributeError", kp |-> kp]
       ELSE IF res_paths[i] \in DictKeys(temp.children)
         THEN Walk(materials, res_paths, i + 1, Append(kp, res_paths[i]))
       ELSE Walk(materials, res_paths, i + 1, kp)

\* lines 509-514: ensure the children map, then insert the record
Insert(materials, kp, res) ==
  LET temp == GetNode(materials, kp) IN
  IF "children" \notin DOMAIN temp
    THEN [exc |-> "KeyError", tree |-> materials, did |-> "raised", at |-> kp]
  ELSE LET c  == IF Falsy(temp.children) THEN EmptyDict ELSE temp.children
           m1 == SetChildren(materials, kp, c)
       IN IF "id" \notin DOMAIN res
            THEN [exc |-> "KeyError", tree |-> m1, did |-> "raised", at |-> kp]
          ELSE [exc |-> "", tree |-> SetChildren(materials, kp, DictSet(c, res.id, res)),
                did |-> "spliced", at |-> kp]

Raised(e, materials) == [exc |-> e, tree |-> materials, did |-> "raised", at |-> << >>]

Skipped(materials) == [exc |-> "", tree |-> materials, did |-> "skipped", at |-> << >>]

SpliceRecord(materials, res) ==
  LET tag_paths == IF "tag_paths" \in DOMAIN res THEN res.tag_paths ELSE << >> IN
  IF Len(tag_paths) = 0 \/ Len(tag_paths[1]) = 0 THEN Skipped(materials)
  ELSE
  LET path_parts == Split(tag_paths[1]) IN
  IF Len(path_parts) < 2 THEN Raised("IndexError", materials)
  ELSE IF IsNone(materials) THEN Raised("TypeError", materials)
  ELSE IF path_parts[2] \notin DictKeys(materials) THEN Raised("KeyError", materials)
  ELSE
  LET temp_materials == materials.map[path_parts[2]]
      res_paths == SubSeq(path_parts, 3, Len(path_parts))
  IN
  IF Len(res_paths) = 0 THEN Raised("IndexError", materials)
  ELSE IF IsNone(temp_materials.children) THEN Raised("TypeError", materials)
  ELSE IF res_paths[1] \notin DictKeys(temp_materials.children) THEN Skipped(materials)
  ELSE
  LET w == Walk(materials, res_paths, 1, << path_parts[2] >>) IN
  IF w.exc # "" THEN Raised(w.exc, materials)
  ELSE Insert(materials, w.kp, res)

\* "for res in res_data" from position i: stops at the first record that
\* raises; log lists, for every record handled, what was done with it
RECURSIVE SpliceShard(_, _, _, _)
SpliceShard(materials, res_data, i, log) ==
  IF i > Len(res_data) THEN [exc |-> "", tree |-> materials, log |-> log]
  ELSE LET r == SpliceRecord(materials, res_data[i])
           l == Append(log, [res |-> res_data[i], did |-> r.did, at |-> r.at])
       IN IF r.exc # "" THEN [exc |-> r.exc, tree |-> r.tree, log |-> l]
          ELSE SpliceShard(r.tree, res_data, i + 1, l)

(***************************************************************************)
(* Names used by Basic._update_menu_state (ASCII transliterations of the   *)
(* source's literals) and the sentinel entry of every menu                 *)
(***************************************************************************)
XiaoXue       == "xiaoxue"        \* "小学"
ChuZhong      == "chuzhong"       \* "初中"
GaoZhong      == "gaozhong"       \* "高中"
TeShuJiaoYu   == "teshujiaoyu"    \* "特殊教育"
XinXiKeJi     == "xinxikeji"      \* "信息科技"
XinXiJiShu    == "xinxijishu"     \* "信息技术"
PeiZhiXueXiao == "peizhixuexiao"  \* "培智学校"
DeYu          == "deyu"           \* "德语"
FaYu          == "fayu"           \* "法语"
Sentinel      == "- select -"     \* "- 请选择 -"

(***************************************************************************)
(* Inputs: what the three kinds of request can answer                      *)
(***************************************************************************)
Leaf(id, name) == [tag_id |-> id, tag_name |-> name, hierarchies |-> << >>]

Tag(id, name, cs) ==
  [tag_id |-> id, tag_name |-> name, hierarchies |-> << [children |-> cs] >>]

\* the taxonomy; the first top-level tag is the textbook catalogue
MainTags ==
  [hierarchies |-> <<
    [children |-> <<
      Tag("dzjc", "dianzijiaocai", <<
        Tag("s1", XiaoXue, <<
          Tag("k1", "yuwen", << Tag("v1", "tongbian", << Leaf("g1", "grade1") >>) >>),
          Tag("k2", XinXiKeJi, << Leaf("g2", "grade3") >>) >>),
        Tag("s2", GaoZhong, <<
          Tag("k3", DeYu, << Tag("v2", "renjiao", << Leaf("g3", "bixiu1") >>) >>),
          Tag("k4", "lishi", << Leaf("v3", "tongbian") >>) >>),
        Tag("s3", TeShuJiaoYu, <<
          Tag("c1", PeiZhiXueXiao, <<
            Tag("k5", XinXiJiShu, << Leaf("u1", "shangce") >>),
            Tag("k6", "yuwen", << Leaf("g4", "grade1") >>) >>),
          Tag("c2", "longxiao", <<
            Tag("t1", XiaoXue, << Tag("k7", "yuwen", << Leaf("g5", "grade1") >>) >>) >>),
          Tag("k8", XinXiJiShu, <<
            Tag("c3", PeiZhiXueXiao, << Leaf("u2", "shangce") >>) >>) >>),
        Tag("s4", ChuZhong, << Tag("k9", XinXiKeJi, << Leaf("g6", "grade7") >>) >>)
      >>),
      Tag("other", "zhuanti2", << Leaf("o1", XiaoXue) >>)
    >>]
  >>]

\* a taxonomy answer without any hierarchy
EmptyTags == [hierarchies |-> << >>]

\* a taxonomy whose first top-level tag has no nested hierarchies
FlatTags == [hierarchies |-> << [children |-> << Leaf("dzjc", "dianzijiaocai") >>] >>]

\* a taxonomy whose first top-level tag has one hierarchy without children
HollowTags ==
  [hierarchies |-> << [children |-> <<
     [tag_id |-> "dzjc", tag_name |-> "dianzijiaocai",
      hierarchies |-> << [children |-> << >>] >>] >>] >>]

\* a taxonomy in which the tag of a school stage has one hierarchy without
\* children
SparseTags ==
  [hierarchies |-> << [children |-> <<
     Tag("dzjc", "dianzijiaocai", << Tag("s1", XiaoXue, << >>) >>) >>] >>]

TagPayloads == {MainTags, EmptyTags, FlatTags, HollowTags, SparseTags}

RootPrefix == "zhuanti"           \* "专题"

RECURSIVE Join(_)
Join(segs) == IF Len(segs) = 0 THEN << >>
              ELSE IF Len(segs) = 1 THEN << segs[1] >>
              ELSE << segs[1], "/" >> \o Join(Tail(segs))

Res(id, segs, size) ==
  [id |-> id, tag_paths |-> << Join(segs) >>,
   custom_properties |-> [size |-> size]]

G1Path == << RootPrefix, "dzjc", "s1", "k1", "v1", "g1" >>

r1 == Res("r1", G1Path, 1000)
r2 == Res("r2", G1Path, 2048)
\* custom_properties without a size
r3 == [id |-> "r3", tag_paths |-> << Join(G1Path) >>,
       custom_properties |-> [format |-> "pdf"]]
\* a path that ends at a category that has sub-categories
r4 == Res("r4", << RootPrefix, "dzjc", "s1", "k1" >>, 5)
\* no custom_properties at all
r5 == [id |-> "r5", tag_paths |-> << Join(<< RootPrefix, "dzjc", "s2", "k4", "v3" >>) >>]
\* under the second top-level tag
r6 == Res("r6", << RootPrefix, "other", "o1" >>, 6)
\* a path with a segment the taxonomy does not know, between known ones
r7 == Res("r7", << RootPrefix, "dzjc", "s4", "zz", "k9", "g6" >>, 7)
\* tag_paths absent, empty, or holding an empty string
rNoPaths   == [id |-> "x1", custom_properties |-> [size |-> 1]]
rEmptyList == [id |-> "x2", tag_paths |-> << >>, custom_properties |-> [size |-> 1]]
rEmptyPath == [id |-> "x3", tag_paths |-> << << >> >>, custom_properties |-> [size |-> 1]]
\* first segment is not the root prefix
rWrongPrefix == Res("x4", << "wrong", "dzjc", "s2", "k3", "v2", "g3" >>, 4)
\* top segment is no top-level tag
rUnknownTop == Res("x5", << RootPrefix, "nosuch", "s1", "k1" >>, 1)
\* first segment after the top tag is no child of the top-level node
rForeign == Res("x6", << RootPrefix, "dzjc", "zz", "k1" >>, 1)
\* too few segments
rShort == Res("x7", << RootPrefix, "dzjc" >>, 1)
rOneSeg == Res("x8", << RootPrefix >>, 1)
\* no id
rNoId == [tag_paths |-> << Join(G1Path) >>, custom_properties |-> [size |-> 1]]
\* a path that goes on below a taxonomy leaf
rDeep == Res("x9", << RootPrefix, "dzjc", "s2", "k4", "v3", "more" >>, 1)

\* the id of r1 once more, on a path that ends one level higher
r1Again == Res("r1", << RootPrefix, "dzjc", "s1", "k1", "v1" >>, 7)

\* what one resource shard can hold
ShardPool ==
  { << r1, r2, r3 >>,
    << r1, r1Again >>,
    << rNoPaths, rEmptyList, rEmptyPath, rForeign, r4 >>,
    << r5, r6 >>,
    << r7, rWrongPrefix >>,
    << rUnknownTop, r1 >>,
    << rShort, r2 >>,
    << rOneSeg >>,
    << rNoId, r4 >>,
    << rDeep, r5 >> }

\* the most shard URLs the index lists
MaxShards == 2

(***************************************************************************)
(* The cascade fields (the OptionMenus of material_frame)                  *)
(***************************************************************************)
Menus == {"material_menu", "subject_menu", "provider_menu", "category_menu",
          "stage_menu", "grade_menu", "volume_menu"}

\* the order of the menus in BasicConfig.WIDGET: the order in which the
\* visibility rules name them, or the order of the levels of the catalogue
MenuOrders ==
  { << "material_menu", "subject_menu", "provider_menu", "category_menu",
       "stage_menu", "grade_menu", "volume_menu" >>,
    << "material_menu", "category_menu", "stage_menu", "subject_menu",
       "provider_menu", "grade_menu", "volume_menu" >> }

\* the menus whose state in BasicConfig.WIDGET is "normal" at creation: none,
\* _init_materials enables material_menu and the cascade the others
InitiallyEnabled == {}

\* lines 201-203: the menus removed from the grid at creation
HiddenAtCreationAllButFirst == Menus \ {"material_menu"}

HiddenAtCreation == {"category_menu", "stage_menu", "volume_menu"}

EmptyStatus == [k \in {} |-> 0]

VARIABLES
  pc,             \* where the startup callback _after_created stands
  order,          \* the order of the cascade fields in BasicConfig.WIDGET
  taxonomy,       \* outcome of the taxonomy request
  materials,      \* _fetch_materials: the local tree being built
  nurls,          \* _fetch_materials: number of shard URLs
  fetched,        \* _fetch_materials: the shard answers handled so far
  log,            \* _fetch_materials: what was done with every record
  raised,         \* the exception _init_materials caught ("" if none)
  errors,         \* number of messagebox.showerror calls
  self_materials, \* Basic.materials
  value,          \* Basic.variables[menu].get()
  visible,        \* widget.winfo_ismapped()
  enabled,        \* widget state is "normal"
  options,        \* the menu entries after the sentinel entry
  traces,         \* number of write callbacks on Basic.variables[menu]
  resources,      \* Basic.resources
  status,         \* Basic.status
  download,       \* download_button state is "normal"
  last,           \* what the latest run of _on_option_change did
  app,            \* the App window: network status, label, pending timer
  token           \* the access token: attribute, header, entry, variable, store

build_vars == << pc, taxonomy, materials, nurls, fetched, log, raised >>

menu_vars == << value, visible, enabled, options, traces >>

result_vars == << resources, status, download >>

vars == << pc, order, taxonomy, materials, nurls, fetched, log, raised, errors,
           self_materials, value, visible, enabled, options, traces, resources,
           status, download, last, app, token >>

\* App.__init__: network_status is None, nothing is scheduled yet.  probe
\* is the outcome of the latest call of get_network_status ("none" before
\* the first) and ticks the parity of the number of ticks so far.
AppCreated ==
  [network_status |-> "None", network_label |-> << >>, after |-> 0,
   probe |-> "none", ticks |-> 0]

\* Python's None where a string is expected (subject_value, category_value,
\* access_token)
NoneStr == "<None>"

\* what the credential store can hold at startup ("" when it holds none) and
\* what the user can leave in the token entry
StoredTokens == {"", "tokA"}

TokenInputs == {"", "tokA", "tokB"}

\* Basic.__init__ and _create_widgets: access_token is None, the header is
\* 'MAC id="0",nonce="0",mac="0"', entry and variable are empty.  id is the
\* id field of the X-ND-AUTH header; store is what the program has written
\* to the credential store (None: nothing yet, the store holds what it held
\* before); loaded tells whether _load_access_token has run.
TokenCreated ==
  [access_token |-> NoneStr, id |-> "0", entry |-> "", variable |-> "",
   store |-> NoneStr, entry_enabled |-> "token_entry" \in InitiallyEnabled,
   loaded |-> FALSE]

NoRun == [key |-> "", branch |-> "none", exc |-> "", flat |-> "", stop |-> FALSE,
          islast |-> FALSE, reached |-> NoneVal, had |-> FALSE, runs |-> 0]

Init ==
  /\ pc = "created"
  /\ order \in MenuOrders
  /\ taxonomy = "unfetched"
  /\ materials = EmptyDict
  /\ nurls = 0
  /\ fetched = << >>
  /\ log = << >>
  /\ raised = ""
  /\ errors = 0
  /\ self_materials = EmptyDict
  /\ value = [m \in Menus |-> Sentinel]
  /\ visible = [m \in Menus |-> m \notin HiddenAtCreation]
  /\ enabled = [m \in Menus |-> m \in InitiallyEnabled]
  /\ options = [m \in Menus |-> << >>]
  /\ traces = [m \in Menus |-> 1]
  /\ resources = EmptyDict
  /\ status = EmptyStatus
  /\ download = FALSE
  /\ last = NoRun
  /\ app = AppCreated
  /\ token = TokenCreated

(***************************************************************************)
(* Startup: Basic._after_created -> _init_materials -> _fetch_materials    *)
(***************************************************************************)
\* lines 520-526: a RequestException outside the shard loop is reported and
\* _fetch_materials returns {}
ReturnEmpty ==
  /\ errors' = errors + 1
  /\ materials' = EmptyDict
  /\ pc' = "returned"

\* an exception that leaves _fetch_materials reaches the handler of
\* _init_materials (lines 233-238)
InitHandler(e) ==
  /\ raised' = e
  /\ errors' = errors + 1
  /\ pc' = "failed"

\* lines 477-478
FetchTags ==
  /\ pc = "created"
  /\ \/ /\ taxonomy' = "unavailable"
        /\ ReturnEmpty
        /\ UNCHANGED << nurls, fetched, log, raised >>
     \/ \E tag_data \in TagPayloads :
          /\ taxonomy' = "fetched"
          /\ materials' = parse_material(tag_data.hierarchies)
          /\ pc' = "urls"
          /\ UNCHANGED << nurls, fetched, log, raised, errors >>
  /\ UNCHANGED << order, self_materials, menu_vars, result_vars, last, app, token >>

\* lines 481-482
FetchUrls ==
  /\ pc = "urls"
  /\ \/ /\ ReturnEmpty
        /\ UNCHANGED << nurls, raised >>
     \/ \E n \in 0..MaxShards :
          /\ nurls' = n
          /\ pc' = IF n = 0 THEN "returned" ELSE "shards"
          /\ UNCHANGED << materials, raised, errors >>
  /\ UNCHANGED << order, taxonomy, fetched, log, self_materials, menu_vars,
                  result_vars, last, app, token >>

AfterShard == IF Len(fetched) + 1 = nurls THEN "returned" ELSE "shards"

\* lines 485-517: one pass of "for url in filter(None, urls)"
FetchShard ==
  /\ pc = "shards"
  /\ \/ \* requests.RequestException: logged, next url
        /\ fetched' = Append(fetched, [ok |-> FALSE, data |-> << >>])
        /\ pc' = AfterShard
        /\ UNCHANGED << materials, log, raised, errors >>
     \/ \E res_data \in ShardPool :
          LET r == SpliceShard(materials, res_data, 1, << >>) IN
          /\ fetched' = Append(fetched, [ok |-> TRUE, data |-> res_data])
          /\ materials' = r.tree
          /\ log' = log \o r.log
          /\ IF r.exc # "" THEN InitHandler(r.exc)
             ELSE pc' = AfterShard /\ UNCHANGED << raised, errors >>
  /\ UNCHANGED << order, taxonomy, nurls, self_materials, menu_vars,
                  result_vars, last, app, token >>

\* the names added by "for material in ...values(): add_command(label=
\* material['tag_name'])" up to the first value without a tag_name
RECURSIVE NamesFrom(_, _)
NamesFrom(vals, i) ==
  IF i > Len(vals) \/ "tag_name" \notin DOMAIN vals[i] THEN << >>
  ELSE << vals[i].tag_name >> \o NamesFrom(vals, i + 1)

Names(d) == NamesFrom(DictValues(d), 1)

\* TRUE when reading material['tag_name'] of every value raises KeyError
NamesRaise(d) == \E i \in 1..Len(d.ord) : "tag_name" \notin DOMAIN d.map[d.ord[i]]

\* line 232 is reached only when nothing was raised before it: the state of
\* material_menu when _init_materials ends
InitEnabledAlways(completed) == TRUE

InitEnabled(completed) == completed \/ enabled["material_menu"]

\* line 217: next(iter(self._fetch_materials().values())), for a tree with
\* at least one top-level tag
LastTag(tree) == tree.map[tree.ord[Len(tree.ord)]]

FirstTag(tree) == tree.map[tree.ord[1]]

\* lines 214-238, after _fetch_materials has returned
InitMaterials ==
  /\ pc = "returned"
  /\ IF IsNone(materials)
       THEN /\ InitHandler("AttributeError")
            /\ enabled' = [enabled EXCEPT !["material_menu"] = InitEnabled(FALSE)]
            /\ UNCHANGED << self_materials, options >>
     ELSE IF Len(materials.ord) = 0
       THEN /\ InitHandler("StopIteration")
            /\ enabled' = [enabled EXCEPT !["material_menu"] = InitEnabled(FALSE)]
            /\ UNCHANGED << self_materials, options >>
     ELSE
       LET first == FirstTag(materials) IN
       /\ self_materials' = first.children
       /\ IF IsNone(first.children)
            THEN /\ InitHandler("AttributeError")
                 /\ enabled' = [enabled EXCEPT !["material_menu"] = InitEnabled(FALSE)]
                 /\ UNCHANGED options
          ELSE
            /\ options' = [options EXCEPT !["material_menu"] = @ \o Names(first.children)]
            /\ IF NamesRaise(first.children)
                 THEN /\ InitHandler("KeyError")
                      /\ enabled' = [enabled EXCEPT !["material_menu"] = InitEnabled(FALSE)]
               ELSE /\ enabled' = [enabled EXCEPT !["material_menu"] = InitEnabled(TRUE)]
                    /\ pc' = "ready"
                    /\ UNCHANGED << raised, errors >>
  \* the locals of _fetch_materials are gone
  /\ materials' = EmptyDict
  /\ fetched' = << >>
  /\ log' = << >>
  /\ nurls' = 0
  /\ UNCHANGED << order, taxonomy, value, visible, traces, result_vars, last,
                  app, token >>

(***************************************************************************)
(* Cascade Controller.  M is the state of the menus:                       *)
(* [value, visible, enabled, options, traces], each a function on Menus,   *)
(* and reentered, the number of runs of _on_option_change started by a     *)
(* write made while the handler was running.                               *)
(***************************************************************************)
\* utils.toggle_widget_state
toggle_widget_state(M, widget, vis) == [M EXCEPT !.visible[widget] = vis]

\* line 673: widget_var.trace_remove("write", self.trace_ids[widget_key]),
\* n being the number of callbacks on the variable
trace_remove_skipped(n) == n

trace_remove(n) == n - 1

\* lines 675-677: widget_var.trace_add("write", ...)
trace_add(n) == n + 1

\* the body of the loop of Basic._reset_menu_option; widget_var.set (line
\* 674) runs every callback still on the variable
ResetOneKeepEnabled(M, widget_key) ==
  LET left == trace_remove(M.traces[widget_key]) IN
  [M EXCEPT !.options[widget_key] = << >>,
            !.value[widget_key] = Sentinel,
            !.reentered = @ + left,
            !.traces[widget_key] = trace_add(left)]

ResetOne(M, widget_key) ==
  LET left == trace_remove(M.traces[widget_key]) IN
  [M EXCEPT !.enabled[widget_key] = FALSE,
            !.options[widget_key] = << >>,
            !.value[widget_key] = Sentinel,
            !.reentered = @ + left,
            !.traces[widget_key] = trace_add(left)]

\* Basic._reset_menu_option; start_index counts from 0 as in the source
RECURSIVE _reset_menu_option(_, _, _)
_reset_menu_option(M, widget_keys, start_index) ==
  IF start_index >= Len(widget_keys) THEN M
  ELSE _reset_menu_option(ResetOne(M, widget_keys[start_index + 1]),
                          widget_keys, start_index + 1)

\* "toggle_widget_state(w, visible); self._reset_menu_option([w], 0) if not
\* visible else None"
ToggleOnly(M, widget, vis) == toggle_widget_state(M, widget, vis)

ToggleAndReset(M, widget, vis) ==
  IF vis THEN toggle_widget_state(M, widget, TRUE)
  ELSE _reset_menu_option(toggle_widget_state(M, widget, FALSE), << widget >>, 0)

\* lines 580-582
is_info_tech_never(material_value, subject_value) == FALSE

is_info_tech(material_value, subject_value) ==
  material_value \in {XiaoXue, ChuZhong} /\ subject_value = XinXiKeJi

\* line 594
is_spec_educ(material_value) == material_value = TeShuJiaoYu

\* lines 595-599: the dict spec_edu_widgets, iterated in this order
spec_edu_widgets_any_category(material_value, subject_value, category_value) ==
  [category_menu |-> is_spec_educ(material_value),
   stage_menu    |-> is_spec_educ(material_value),
   provider_menu |-> ~(is_spec_educ(material_value)
                       \/ is_info_tech(material_value, subject_value))]

spec_edu_widgets(material_value, subject_value, category_value) ==
  [category_menu |-> is_spec_educ(material_value),
   stage_menu    |-> is_spec_educ(material_value)
                     /\ category_value # PeiZhiXueXiao,
   provider_menu |-> ~(is_spec_educ(material_value)
                       \/ is_info_tech(material_value, subject_value))]

\* lines 606-607
is_special_grade(material_value, subject_value) ==
  material_value = GaoZhong /\ subject_value \notin {DeYu, FaYu}

\* lines 608-612
is_spec_edu_info_tech(material_value, category_value, subject_value) ==
  /\ is_spec_educ(material_value)
  /\ category_value = PeiZhiXueXiao
  /\ subject_value = XinXiJiShu

\* Basic._update_menu_state
_update_menu_state(M, widget_key) ==
  LET material_value == M.value["material_menu"]
      subject_value  == IF widget_key = "material_menu" THEN NoneStr
                        ELSE M.value["subject_menu"]
      category_value == IF widget_key = "material_menu" THEN NoneStr
                        ELSE M.value["category_menu"]
      M1 == ToggleAndReset(M, "provider_menu",
                           ~is_info_tech(material_value, subject_value))
      w  == spec_edu_widgets(material_value, subject_value, category_value)
      M2 == ToggleAndReset(M1, "category_menu", w.category_menu)
      M3 == ToggleAndReset(M2, "stage_menu", w.stage_menu)
      M4 == ToggleAndReset(M3, "provider_menu", w.provider_menu)
      grade_visible ==
        ~(is_special_grade(material_value, subject_value)
          \/ is_spec_edu_info_tech(material_value, category_value, subject_value))
      M5 == ToggleAndReset(M4, "grade_menu", grade_visible)
      volume_visible ==
        is_spec_edu_info_tech(material_value, category_value, subject_value)
  IN ToggleAndReset(M5, "volume_menu", volume_visible)

\* lines 313-317: the visible menus, in the order of WIDGET
VisibleKeys(M) == SelectSeq(order, LAMBDA k : M.visible[k])

IndexOf(s, k) == CHOOSE i \in 1..Len(s) : s[i] = k

\* lines 344-348: next(material["children"] for material in
\* materials.values() if material["tag_name"] == selected_value)
RECURSIVE LookupFrom(_, _, _)
LookupFrom(vals, i, selected_value) ==
  IF i > Len(vals) THEN [exc |-> "StopIteration", val |-> NoneVal]
  ELSE IF "tag_name" \notin DOMAIN vals[i] THEN [exc |-> "KeyError", val |-> NoneVal]
  ELSE IF vals[i].tag_name = selected_value THEN [exc |-> "", val |-> vals[i].children]
  ELSE LookupFrom(vals, i + 1, selected_value)

Lookup(mats, selected_value) ==
  IF IsNone(mats) THEN [exc |-> "AttributeError", val |-> NoneVal]
  ELSE LookupFrom(DictValues(mats), 1, selected_value)

\* lines 339-351: "for i in range(widget_index + 1)" from position i (from 1);
\* n is widget_index + 1
RECURSIVE Descend(_, _, _, _, _)
Descend(mats, widget_keys, val, i, n) ==
  IF i > n THEN [exc |-> "", stop |-> FALSE, materials |-> mats]
  ELSE LET l == Lookup(mats, val[widget_keys[i]]) IN
       IF l.exc = "StopIteration" THEN [exc |-> "", stop |-> TRUE, materials |-> mats]
       ELSE IF l.exc # "" THEN [exc |-> l.exc, stop |-> FALSE, materials |-> mats]
       ELSE Descend(l.val, widget_keys, val, i + 1, n)

\* lines 383-387; raises KeyError when a resource has no custom_properties
SizeOf(resource) ==
  IF "size" \in DOMAIN resource.custom_properties
    THEN resource.custom_properties.size ELSE 0

RECURSIVE SumSizes(_, _)
SumSizes(vals, i) ==
  IF i > Len(vals) THEN 0 ELSE SizeOf(vals[i]) + SumSizes(vals, i + 1)

StatusRaises(res) ==
  \E k \in DictKeys(res) : "custom_properties" \notin DOMAIN res.map[k]

\* the record the latest run of the handler leaves in "last":
\*   key     the menu whose change ran the handler ("" before any run)
\*   branch  "populate" (lines 354-368 ran to the end), "resolve" (lines
\*           371-392 were entered) or "none"
\*   exc     the exception that left the handler ("" if it returned)
\*   flat    "ok" / "failed": how parse_resource ended, "" if it did not run
\*   stop    stop_iteration
\*   islast  widget_index == len(widget_keys) - 1
\*   reached the value of the local "materials" after the descent
\*   had     a non-empty resource set was published when the handler began
\*   runs    the number of runs of the handler the change caused
Run(key, branch, exc, flat, stop, islast, reached) ==
  [key |-> key, branch |-> branch, exc |-> exc, flat |-> flat, stop |-> stop,
   islast |-> islast, reached |-> reached, had |-> Len(resources.ord) > 0,
   runs |-> 1]

Outcome(M, res, st, dl, run) ==
  [M |-> M, resources |-> res, status |-> st, download |-> dl, last |-> run]

\* lines 325-336: the resource list, the button and the status once cleared
NotCleared ==
  [resources |-> resources, status |-> status, download |-> download]

Cleared ==
  [resources |-> EmptyDict, status |-> EmptyStatus, download |-> FALSE]

\* lines 390-392: "if self.resources: download_button.config(state='normal')"
EnableDownloadAlways(res) == TRUE

EnableDownload(res) == Len(res.ord) > 0 \/ Cleared.download

\* lines 382-392, res being Basic.resources after the try statement
UpdateStatus(M, res, run) ==
  IF StatusRaises(res)
    THEN Outcome(M, res, Cleared.status, Cleared.download,
                 [run EXCEPT !.exc = "KeyError"])
  ELSE Outcome(M, res,
               [size_total |-> SumSizes(DictValues(res), 1),
                count_total |-> Len(res.ord)],
               EnableDownload(res), run)

\* lines 370-392, entered with the resource set, status and button cleared
ResolveKeepStale(M, mats, key, stop, islast) ==
  LET pr == parse_resource(mats) IN
  IF pr.exc # ""
    THEN UpdateStatus(M, resources,
                      Run(key, "resolve", "", "failed", stop, islast, mats))
  ELSE UpdateStatus(M, pr.val, Run(key, "resolve", "", "ok", stop, islast, mats))

Resolve(M, mats, key, stop, islast) ==
  LET pr == parse_resource(mats) IN
  IF pr.exc # ""
    THEN UpdateStatus(M, Cleared.resources,
                      Run(key, "resolve", "", "failed", stop, islast, mats))
  ELSE UpdateStatus(M, pr.val, Run(key, "resolve", "", "ok", stop, islast, mats))

\* lines 353-368
Populate(M, mats, key, next_key) ==
  IF IsNone(mats)
    THEN Outcome(M, Cleared.resources, Cleared.status, Cleared.download,
                 Run(key, "none", "AttributeError", "", FALSE, FALSE, mats))
  ELSE LET M1 == [M EXCEPT !.options[next_key] = @ \o Names(mats)] IN
       IF NamesRaise(mats)
         THEN Outcome(M1, Cleared.resources, Cleared.status, Cleared.download,
                      Run(key, "none", "KeyError", "", FALSE, FALSE, mats))
       ELSE Outcome([M1 EXCEPT !.enabled[next_key] = TRUE],
                    Cleared.resources, Cleared.status, Cleared.download,
                    Run(key, "populate", "", "", FALSE, FALSE, mats))

\* line 354: "if widget_index < (len(widget_keys) - 1) and not
\* stop_iteration", n being len(widget_keys)
PopulatesAfterMiss(widget_index, n, stop_iteration) == widget_index < n - 1

Populates(widget_index, n, stop_iteration) ==
  widget_index < n - 1 /\ ~stop_iteration

\* lines 325-392: from the clearing of the resource list on
ClearAndDescend(M, widget_keys, widget_index, key) ==
  LET d == Descend(self_materials, widget_keys, M.value, 1, widget_index + 1)
      islast == widget_index = Len(widget_keys) - 1
  IN IF d.exc # ""
       THEN Outcome(M, Cleared.resources, Cleared.status, Cleared.download,
                    Run(key, "none", d.exc, "", FALSE, islast, d.materials))
     ELSE IF Populates(widget_index, Len(widget_keys), d.stop)
       THEN Populate(M, d.materials, key, widget_keys[widget_index + 2])
     ELSE Resolve(M, d.materials, key, d.stop, islast)

\* Basic._on_option_change(widget_key), M being the menus once the variable
\* of widget_key has been written
\* line 323: self._reset_menu_option(widget_keys, widget_index + 1)
ResetStartAtTrigger(widget_index) == widget_index

ResetStart(widget_index) == widget_index + 1

HandlerBody(M, widget_key) ==
  LET M1 == _update_menu_state(M, widget_key)
      widget_keys == VisibleKeys(M1)
  IN IF ~M1.visible[widget_key]
       THEN \* widget_keys.index(widget_key) raises ValueError
            Outcome(M1, resources, status, download,
                    Run(widget_key, "none", "ValueError", "", FALSE, FALSE, NoneVal))
     ELSE LET widget_index == IndexOf(widget_keys, widget_key) - 1
              M2 == _reset_menu_option(M1, widget_keys, ResetStart(widget_index))
          IN ClearAndDescend(M2, widget_keys, widget_index, widget_key)

\* the write to the variable of widget_key runs each of its callbacks; runs
\* counts them and the runs started from within
_on_option_change(M, widget_key) ==
  LET o == HandlerBody(M, widget_key) IN
  [o EXCEPT !.last.runs = M.traces[widget_key] + o.M.reentered]

Range(s) == {s[i] : i \in 1..Len(s)}

\* what a run of _on_option_change leaves alone: it reads Basic.materials
\* through the local "materials" and assigns to no node of it
HandlerFrameAliased ==
  /\ self_materials' = DictUpdate(self_materials, resources')
  /\ UNCHANGED << order, errors, build_vars, app, token >>

HandlerFrame ==
  UNCHANGED << order, self_materials, errors, build_vars, app, token >>

\* the user picks entry v of menu key: the variable is written and its
\* trace runs _on_option_change
OptionChange(key, v) ==
  /\ pc \in {"created", "ready", "failed"}
  /\ visible[key] /\ enabled[key]
  /\ v \in Range(options[key]) \cup {Sentinel}
  /\ traces[key] > 0
  /\ LET o == _on_option_change(
                [value |-> [value EXCEPT ![key] = v], visible |-> visible,
                 enabled |-> enabled, options |-> options, traces |-> traces,
                 reentered |-> 0], key)
     IN /\ value' = o.M.value
        /\ visible' = o.M.visible
        /\ enabled' = o.M.enabled
        /\ options' = o.M.options
        /\ traces' = o.M.traces
        /\ resources' = o.resources
        /\ status' = o.status
        /\ download' = o.download
        /\ last' = o.last
  /\ HandlerFrame

UserAction == \E key \in Menus : \E v \in Range(options[key]) \cup {Sentinel} :
                OptionChange(key, v)

Next == FetchTags \/ FetchUrls \/ FetchShard \/ InitMaterials \/ UserAction

Spec == Init /\ [][Next]_vars

(***************************************************************************)
(* Writes to the variable of a hidden menu.  The trace added at lines      *)
(* 144-148 stays on the variable whatever the visibility of the widget, so *)
(* a write made by code (the user cannot reach a hidden menu) runs         *)
(* _on_option_change as well.                                              *)
(***************************************************************************)
\* the values such a write stores
AssignValues == {PeiZhiXueXiao, XinXiJiShu}

\* self.variables[key].set(v) while the widget of key is hidden
AssignHidden(key, v) ==
  /\ pc \in {"created", "ready", "failed"}
  /\ ~visible[key]
  /\ traces[key] > 0
  /\ LET o == _on_option_change(
                [value |-> [value EXCEPT ![key] = v], visible |-> visible,
                 enabled |-> enabled, options |-> options, traces |-> traces,
                 reentered |-> 0], key)
     IN /\ value' = o.M.value
        /\ visible' = o.M.visible
        /\ enabled' = o.M.enabled
        /\ options' = o.M.options
        /\ traces' = o.M.traces
        /\ resources' = o.resources
        /\ status' = o.status
        /\ download' = o.download
        /\ last' = o.last
  /\ HandlerFrame

ProgramAction == \E key \in Menus : \E v \in AssignValues : AssignHidden(key, v)

NextAssign ==
  FetchTags \/ FetchUrls \/ FetchShard \/ InitMaterials \/ UserAction
    \/ ProgramAction

SpecAssign == Init /\ [][NextAssign]_vars

(***************************************************************************)
(* The network monitor of the main window (App.run, App._monitor_network). *)
(* Its callbacks run on the same event loop as the startup callback of the *)
(* module window, hence only while that one is not running.                *)
(***************************************************************************)
\* what the request of get_network_status can do
ProbeOutcomes == {"status 200", "other status", "RequestException"}

\* utils.get_network_status; booleans are written "True" / "False"
get_network_status(outcome) ==
  IF outcome = "status 200"
    THEN [connected |-> "True", message |-> "wangluo lianjie zhengchang"]
  ELSE IF outcome = "RequestException"
    THEN [connected |-> "False", message |-> "wangluo lianjie yichang"]
  ELSE [connected |-> "False", message |-> "wangluo lianjie weizhi"]

\* app.py line 159: root.after(100, self._monitor_network)
AppRun ==
  /\ app = AppCreated
  /\ app' = [app EXCEPT !.after = 1]
  /\ UNCHANGED << pc, order, taxonomy, materials, nurls, fetched, log, raised,
                  errors, self_materials, menu_vars, result_vars, last, token >>

\* line 154: root.after(10000, self._monitor_network)
RescheduleNever(n) == n - 1

Reschedule(n) == n - 1 + 1

\* one run of App._monitor_network, lines 138-154
MonitorTick ==
  /\ pc \in {"created", "ready", "failed"}
  /\ app.after > 0
  /\ \E outcome \in ProbeOutcomes :
       LET net     == get_network_status(outcome)
           changed == net.connected # app.network_status
       IN app' = [network_status |-> IF changed THEN net.connected
                                     ELSE app.network_status,
                  network_label  |-> IF ~changed THEN app.network_label
                                     ELSE IF net.connected = "True"
                                       THEN << "*" >>
                                     ELSE << "*", net.message >>,
                  after          |-> Reschedule(app.after),
                  probe          |-> outcome,
                  ticks          |-> (app.ticks + 1) % 2]
  /\ UNCHANGED << pc, order, taxonomy, materials, nurls, fetched, log, raised,
                  errors, self_materials, menu_vars, result_vars, last, token >>

NextNet ==
  FetchTags \/ FetchUrls \/ FetchShard \/ InitMaterials \/ AppRun \/ MonitorTick

\* main() calls App.run, and the event loop runs a due timer callback
SpecNet ==
  Init /\ [][NextNet]_vars /\ WF_vars(AppRun) /\ WF_vars(MonitorTick)
         /\ WF_vars(FetchTags \/ FetchUrls \/ FetchShard \/ InitMaterials)

(***************************************************************************)
(* The access token: Basic._load_access_token, run by _after_created once  *)
(* _init_materials has returned, and Basic._on_entry_focus_out.            *)
(***************************************************************************)
\* utils.get_access_token: what the credential store can answer
get_access_token ==
  IF token.store = NoneStr THEN StoredTokens ELSE {token.store}

\* lines 257-278; a stored token is truthy when it is not ""
LoadAccessToken ==
  /\ pc \in {"ready", "failed"}
  /\ ~token.loaded
  /\ \E access_token \in get_access_token :
     token' = IF access_token # ""
                THEN [token EXCEPT !.entry = access_token,
                                   !.access_token = access_token,
                                   !.variable = access_token,
                                   !.entry_enabled = TRUE,
                                   !.loaded = TRUE]
              ELSE [token EXCEPT !.entry_enabled = TRUE, !.loaded = TRUE]
  /\ UNCHANGED << order, errors, self_materials, build_vars, menu_vars,
                  result_vars, last, app >>

\* lines 451-458: self.session.headers.update({"X-ND-AUTH": ...})
HeaderUpdate(id, entry_value) == entry_value

\* the user leaves entry_value in the token entry and the entry loses the
\* focus: lines 430-458
EntryFocusOut(entry_value) ==
  /\ pc \in {"created", "ready", "failed"}
  /\ token.entry_enabled
  /\ token' = IF entry_value # token.variable
                THEN [token EXCEPT !.entry = entry_value,
                                   !.store = entry_value,
                                   !.access_token = entry_value,
                                   !.variable = entry_value,
                                   !.id = HeaderUpdate(@, entry_value)]
              ELSE [token EXCEPT !.entry = entry_value]
  /\ UNCHANGED << order, errors, self_materials, build_vars, menu_vars,
                  result_vars, last, app >>

TokenEdit == \E entry_value \in TokenInputs : EntryFocusOut(entry_value)

NextToken ==
  FetchTags \/ FetchUrls \/ FetchShard \/ InitMaterials \/ LoadAccessToken
    \/ TokenEdit

SpecToken == Init /\ [][NextToken]_vars

(***************************************************************************)
(* Vocabulary of the properties                                            *)
(***************************************************************************)
Pos(k) == IndexOf(order, k)

\* the visible fields that hold a selected value
Selected == {k \in Menus : visible[k] /\ value[k] # Sentinel}

\* position of the deepest of them, 0 if there is none
Deepest ==
  IF Selected = {} THEN 0
  ELSE CHOOSE p \in {Pos(k) : k \in Selected} : \A k \in Selected : Pos(k) <= p

AfterDeepest == {k \in Menus : Pos(k) > Deepest}

FirstVisibleAfterDeepest(k) ==
  visible[k] /\ \A j \in AfterDeepest : visible[j] => Pos(k) <= Pos(j)

\* a run of _on_option_change has taken place / has returned normally
Ran == last.key # ""

Completed == Ran /\ last.exc = ""

IsPrefix(a, b) == Len(a) <= Len(b) /\ SubSeq(b, 1, Len(a)) = a

\* the positions of all category nodes below the mapping d
RECURSIVE PositionsUnder(_, _)
PositionsUnder(d, prefix) ==
  IF IsNone(d) THEN {}
  ELSE UNION { IF IsCategory(d.map[k])
                 THEN {Append(prefix, k)}
                      \cup PositionsUnder(d.map[k].children, Append(prefix, k))
               ELSE {} : k \in DictKeys(d) }

\* the size a resource declares, 0 when it declares none
DeclaredSize(r) ==
  IF "custom_properties" \in DOMAIN r /\ "size" \in DOMAIN r.custom_properties
    THEN r.custom_properties.size ELSE 0

RECURSIVE SumDeclared(_, _)
SumDeclared(d, ks) ==
  IF ks = {} THEN 0
  ELSE LET k == CHOOSE x \in ks : TRUE
       IN DeclaredSize(d.map[k]) + SumDeclared(d, ks \ {k})

\* the resource leaves at any depth below the mapping d
RECURSIVE LeavesUnder(_)
LeavesUnder(d) ==
  IF IsNone(d) THEN {}
  ELSE UNION { IF IsResource(d.map[k]) THEN {d.map[k]}
               ELSE IF IsCategory(d.map[k]) THEN LeavesUnder(d.map[k].children)
               ELSE {} : k \in DictKeys(d) }

PathParts(res) ==
  IF "tag_paths" \in DOMAIN res /\ Len(res.tag_paths) > 0
       /\ Len(res.tag_paths[1]) > 0
    THEN Split(res.tag_paths[1]) ELSE << >>

\* absent or empty tag-path, wrong root prefix, or unknown top segment
Malformed(res) ==
  LET parts == PathParts(res) IN
  \/ Len(parts) < 2
  \/ parts[1] # RootPrefix
  \/ IsNone(materials)
  \/ parts[2] \notin DictKeys(materials)

\* a record with an id whose path starts root / known top tag / known child
Usable(res) ==
  LET parts == PathParts(res) IN
  /\ "id" \in DOMAIN res
  /\ Len(parts) >= 3
  /\ parts[1] = RootPrefix
  /\ ~IsNone(materials)
  /\ parts[2] \in DictKeys(materials)
  /\ ~IsNone(materials.map[parts[2]].children)
  /\ parts[3] \in DictKeys(materials.map[parts[2]].children)

SplicedRecords == {log[i].res : i \in {j \in DOMAIN log : log[j].did = "spliced"}}

\* the values the rule-bearing fields hold
TopCategory == value["material_menu"]

Subject == value["subject_menu"]

SpecialCategory == value["category_menu"]

\* the special-education / peizhi school / information-technology branch
VolumeBranch ==
  /\ TopCategory = TeShuJiaoYu
  /\ SpecialCategory = PeiZhiXueXiao
  /\ Subject = XinXiJiShu

\* the order that follows the levels of the catalogue: special category and
\* special stage stand between the top category and the subject
CatalogueOrder ==
  << "material_menu", "category_menu", "stage_menu", "subject_menu",
     "provider_menu", "grade_menu", "volume_menu" >>

\* the non-null children mappings of the category nodes below the mapping d
Subtrees(d) ==
  { GetNode(d, q).children : q \in PositionsUnder(d, << >>) } \ {NoneVal}

\* the resource leaves below the mapping d in the order of a depth-first
\* traversal that follows the insertion order of every mapping
RECURSIVE LeafSeq(_)
RECURSIVE LeafSeqFrom(_, _)
LeafSeqFrom(vals, i) ==
  IF i > Len(vals) THEN << >>
  ELSE (IF IsResource(vals[i]) THEN << vals[i] >>
        ELSE IF "children" \in DOMAIN vals[i] THEN LeafSeq(vals[i].children)
        ELSE << >>) \o LeafSeqFrom(vals, i + 1)

LeafSeq(d) == IF IsNone(d) THEN << >> ELSE LeafSeqFrom(DictValues(d), 1)

FirstWith(s, id) ==
  s[CHOOSE i \in DOMAIN s : s[i].id = id /\ \A j \in 1..(i - 1) : s[j].id # id]

LastWith(s, id) ==
  s[CHOOSE i \in DOMAIN s : s[i].id = id /\ \A j \in (i + 1)..Len(s) : s[j].id # id]

\* two resource leaves below d carry the same id
Collides(d) ==
  \E i, j \in DOMAIN LeafSeq(d) : i # j /\ LeafSeq(d)[i].id = LeafSeq(d)[j].id

\* a category node below d has no children mapping
RECURSIVE HasNullChildren(_)
HasNullChildren(d) ==
  \E k \in DictKeys(d) :
     /\ IsCategory(d.map[k])
     /\ \/ IsNone(d.map[k].children)
        \/ HasNullChildren(d.map[k].children)

\* the tree _fetch_materials is about to return
Built == pc = "returned" /\ ~IsNone(materials)

\* the menus when the handler run by writing v to the variable of key
\* reaches line 370: visibility recomputed and the later fields reset
FlattenStart(key, v) ==
  LET M1 == _update_menu_state(
              [value |-> [value EXCEPT ![key] = v], visible |-> visible,
               enabled |-> enabled, options |-> options, traces |-> traces,
               reentered |-> 0], key)
      widget_keys == VisibleKeys(M1)
  IN _reset_menu_option(M1, widget_keys, IndexOf(widget_keys, key))

\* the tree Phase A is to produce for a hierarchy payload: every child of
\* every entry of a level, with an empty mapping below a child that has no
\* nested hierarchies
RECURSIVE ExpectedTree(_)
RECURSIVE ExpectedChildren(_, _, _)
RECURSIVE ExpectedEntries(_, _, _)
ExpectedChildren(cs, i, acc) ==
  IF i > Len(cs) THEN acc
  ELSE ExpectedChildren(cs, i + 1,
         DictSet(acc, cs[i].tag_id,
                 [tag_name |-> cs[i].tag_name,
                  children |-> ExpectedTree(cs[i].hierarchies)]))

ExpectedEntries(hs, i, acc) ==
  IF i > Len(hs) THEN acc
  ELSE ExpectedEntries(hs, i + 1, ExpectedChildren(hs[i].children, 1, acc))

ExpectedTree(hs) == ExpectedEntries(hs, 1, EmptyDict)

\* the children mapping of the first category child of d with display name
\* v; NoMatch when d has no such child
NoMatch == [nomatch |-> TRUE]

NamedChildren(d, v) ==
  IF IsNone(d) THEN NoMatch
  ELSE LET hits == {i \in 1..Len(d.ord) :
                      IsCategory(d.map[d.ord[i]]) /\ d.map[d.ord[i]].tag_name = v}
       IN IF hits = {} THEN NoMatch
          ELSE d.map[d.ord[CHOOSE i \in hits : \A j \in hits : i <= j]].children

\* the subtree selected by the values of the fields keys[i..n], from d on:
\* miss tells whether one of the values named no child, at is the subtree
\* selected by the values before the first miss
RECURSIVE SelectedFrom(_, _, _, _)
SelectedFrom(d, keys, i, n) ==
  IF i > n THEN [miss |-> FALSE, at |-> d]
  ELSE LET c == NamedChildren(d, value[keys[i]]) IN
       IF c = NoMatch THEN [miss |-> TRUE, at |-> d]
       ELSE SelectedFrom(c, keys, i + 1, n)

\* the visible fields, and the descent of the latest transition through
\* the fields up to the one that triggered it
ShownKeys == SelectSeq(order, LAMBDA k : visible[k])

LatestDescent ==
  SelectedFrom(self_materials, ShownKeys, 1, IndexOf(ShownKeys, last.key))

Ids(rs) == {r.id : r \in rs}

\* the field after the triggering one among the visible fields; the
\* triggering field is not the last of them
TriggerIsLast == IndexOf(ShownKeys, last.key) = Len(ShownKeys)

NextShown == ShownKeys[IndexOf(ShownKeys, last.key) + 1]

\* the display names of the children of the mapping d, in its order
ChildNames(d) ==
  IF IsNone(d) THEN << >>
  ELSE LET cats == SelectSeq(d.ord, LAMBDA k : IsCategory(d.map[k]))
       IN [i \in 1..Len(cats) |-> d.map[cats[i]].tag_name]

\* the position of the deepest category matching the segments segs[i..],
\* from the node at position kp on: a segment that is a child key leads into
\* that child, any other segment is passed over
RECURSIVE DeepestMatch(_, _, _, _)
DeepestMatch(tree, segs, i, kp) ==
  IF i > Len(segs) THEN kp
  ELSE LET temp == GetNode(tree, kp) IN
       IF /\ "children" \in DOMAIN temp
          /\ ~IsNone(temp.children)
          /\ segs[i] \in DictKeys(temp.children)
         THEN DeepestMatch(tree, segs, i + 1, Append(kp, segs[i]))
       ELSE DeepestMatch(tree, segs, i + 1, kp)

\* where the walk of an accepted record is to end
Destination(res) ==
  LET parts == PathParts(res) IN
  DeepestMatch(materials, SubSeq(parts, 3, Len(parts)), 1, << parts[2] >>)

\* the first segment after the top tag is no key of the children of the
\* top-level node the record names
Foreign(res) ==
  LET parts == PathParts(res) IN
  /\ Len(parts) >= 3
  /\ ~IsNone(materials)
  /\ parts[2] \in DictKeys(materials)
  /\ LET c == materials.map[parts[2]].children IN
     IsNone(c) \/ parts[3] \notin DictKeys(c)

\* the records of the shards answered so far, in the order of the loops
RECURSIVE Received(_)
Received(j) == IF j = 0 THEN << >> ELSE Received(j - 1) \o fetched[j].data

\* the visibility the rules of _update_menu_state give for the values the
\* fields hold now
RuleVisible ==
  LET w == spec_edu_widgets(TopCategory, Subject, SpecialCategory)
      branch == is_spec_edu_info_tech(TopCategory, SpecialCategory, Subject)
  IN [m \in Menus |->
        CASE m = "category_menu" -> w.category_menu
          [] m = "stage_menu"    -> w.stage_menu
          [] m = "provider_menu" -> w.provider_menu
          [] m = "grade_menu"    -> ~(is_special_grade(TopCategory, Subject) \/ branch)
          [] m = "volume_menu"   -> branch
          [] OTHER               -> TRUE]

\* the visible field nearest before m in the field order (m is not the first
\* of the visible fields)
ShownBefore(m) ==
  LET earlier == {k \in Menus : visible[k] /\ Pos(k) < Pos(m)}
  IN CHOOSE k \in earlier : \A j \in earlier : Pos(j) <= Pos(k)

\* the values of the visible fields up to k all name a child on the way
\* down from the root
FoundInTree(k) ==
  ~SelectedFrom(self_materials, ShownKeys, 1, IndexOf(ShownKeys, k)).miss

(***************************************************************************)
(* Properties                                                              *)
(***************************************************************************)
\* C1 (as stated): after a transition that completed, every field after the
\* deepest visible field holding a selected value holds the sentinel and is
\* disabled.
C1_Original ==
  Completed => \A k \in AfterDeepest : value[k] = Sentinel /\ ~enabled[k]

\* C1 (amended): after a transition that completed, every field after the
\* deepest visible field holding a selected value holds the sentinel, and
\* every such field other than the first visible one is disabled.
C1_Amended ==
  Completed => \A k \in AfterDeepest :
                 /\ value[k] = Sentinel
                 /\ enabled[k] => FirstVisibleAfterDeepest(k)

\* a transition populated the next field, and further visible fields follow it
C1_Witness ==
  /\ Completed /\ last.branch = "populate" /\ Selected # {}
  /\ \E k \in AfterDeepest : enabled[k]
  /\ \E j \in AfterDeepest : visible[j] /\ ~enabled[j]

\* C2: the resource set, the status and the download button are cleared
\* before the descent and before a new resource set is computed: after a
\* transition that did not resolve (also one that raised during the descent
\* or while populating) the resource set and the status are empty and the
\* button is disabled, and after a flatten that failed the resource set is
\* empty.
C2_ClearedBeforeDescent ==
  Ran => /\ last.branch # "resolve" =>
              resources = EmptyDict /\ status = EmptyStatus /\ ~download
         /\ last.flat = "failed" => resources = EmptyDict /\ ~download

\* a resource set was published, and the next transition did not resolve
C2_Witness ==
  Ran /\ last.had /\ last.branch = "populate" /\ resources = EmptyDict

\* C3: a transition resolves iff its field is the last visible one or a
\* lookup missed; every transition populates the next field or resolves, and
\* returns; a resolution publishes exactly what parse_resource yields on the
\* reached subtree, whenever it yields a mapping.
C3_Claim ==
  Ran => /\ last.branch \in {"populate", "resolve"}
         /\ last.exc = ""
         /\ last.branch = "resolve" <=> (last.islast \/ last.stop)
         /\ last.branch = "resolve" =>
              LET pr == parse_resource(last.reached) IN
              pr.exc = "" => resources = pr.val

\* C4: the download button is enabled only if the published resource set
\* is non-empty.
C4_DownloadOnlyIfResources == download => Len(resources.ord) > 0

\* a resolution published resources and enabled the button
C4_Witness ==
  Ran /\ last.branch = "resolve" /\ download /\ Len(resources.ord) > 0

\* C5: after a resolving transition count_total is the number of published
\* resources and size_total the sum of their declared sizes, an absent size
\* counting 0.
C5_Claim ==
  (Ran /\ last.branch = "resolve") =>
     status = [size_total |-> SumDeclared(resources, DictKeys(resources)),
               count_total |-> Cardinality(DictKeys(resources))]

\* C6: when the build has returned, every spliced record whose path starts
\* with the root prefix and a known top tag is in the flattener's output of
\* the node it was spliced into, and in the output of no node that is not on
\* the way to it.
C6_Claim ==
  pc = "returned" =>
    \A i \in DOMAIN log :
      (log[i].did = "spliced" /\ ~Malformed(log[i].res)) =>
         LET own == parse_resource(GetNode(materials, log[i].at).children) IN
         /\ own.exc = ""
         /\ log[i].res.id \in DictKeys(own.val)
         /\ own.val.map[log[i].res.id] = log[i].res
         /\ \A q \in PositionsUnder(materials, << >>) :
              ~IsPrefix(q, log[i].at) =>
                 LET other == parse_resource(GetNode(materials, q).children) IN
                 other.exc = "" => log[i].res.id \notin DictKeys(other.val)

\* C7: a record with a malformed tag-path is spliced nowhere.
C7_Claim ==
  \A i \in DOMAIN log : Malformed(log[i].res) => log[i].did # "spliced"

\* C8: no record makes the build raise: an unusable record is skipped.
C8_Claim ==
  \A i \in DOMAIN log : log[i].did # "raised"

\* C9: when a shard failed, every usable record of every other shard is
\* spliced once the build has ended.
C9_Claim ==
  (pc \in {"returned", "failed"} /\ \E j \in DOMAIN fetched : ~fetched[j].ok) =>
     \A j \in DOMAIN fetched : \A n \in DOMAIN fetched[j].data :
        Usable(fetched[j].data[n]) => fetched[j].data[n] \in SplicedRecords

\* C10: material_menu is enabled only when the taxonomy was fetched, the
\* build raised nothing, Basic.materials holds the children of the first
\* top-level tag and the menu lists their names; the handler runs only then.
C10_EnabledOnlyAfterBuild ==
  /\ enabled["material_menu"] =>
       /\ pc = "ready" /\ taxonomy = "fetched" /\ raised = ""
       /\ ~IsNone(self_materials)
       /\ options["material_menu"] = Names(self_materials)
       /\ ~NamesRaise(self_materials)
  /\ Ran => pc = "ready"

\* the build succeeded and the first selector offers the top categories
C10_Witness ==
  pc = "ready" /\ enabled["material_menu"] /\ Len(options["material_menu"]) > 0

\* C11: when the taxonomy could not be retrieved, the startup ends with
\* exactly one error report.
C11_Claim ==
  (taxonomy = "unavailable" /\ pc = "failed") => errors = 1

\* C12: after any transition the provider field is hidden and holds the
\* sentinel when the top category is xiaoxue or chuzhong and the subject is
\* xinxikeji, and when the top category is teshujiaoyu; otherwise it is
\* visible.
C12_ProviderVisibility ==
  Ran => IF \/ TopCategory \in {XiaoXue, ChuZhong} /\ Subject = XinXiKeJi
            \/ TopCategory = TeShuJiaoYu
           THEN ~visible["provider_menu"] /\ value["provider_menu"] = Sentinel
         ELSE visible["provider_menu"]

\* chuzhong with xinxikeji was selected and the provider field is hidden
C12_Witness ==
  /\ Ran /\ last.key = "subject_menu"
  /\ TopCategory = ChuZhong /\ Subject = XinXiKeJi
  /\ ~visible["provider_menu"]

C14_Claim ==
  Ran => (visible["grade_menu"] <=>
            ~(\/ TopCategory = GaoZhong /\ Subject \notin {DeYu, FaYu}
              \/ VolumeBranch))

\* C15: after any transition the volume field is visible iff the
\* special-education information-technology branch is active, and the volume
\* and grade fields are never both visible.
C15_Claim ==
  Ran => /\ visible["volume_menu"] <=> VolumeBranch
         /\ ~(visible["volume_menu"] /\ visible["grade_menu"])

\* C16: for the children mapping of every node of the built tree,
\* parse_resource returns a mapping whose keys are exactly the ids of the
\* resource leaves below it at any depth, each mapped to a leaf with that id.
C16_Claim ==
  Built =>
    \A c \in Subtrees(materials) :
       LET pr == parse_resource(c) IN
       /\ pr.exc = ""
       /\ DictKeys(pr.val) = {l.id : l \in LeavesUnder(c)}
       /\ \A k \in DictKeys(pr.val) :
            pr.val.map[k] \in LeavesUnder(c) /\ pr.val.map[k].id = k

\* C17 (as stated): when two leaves below a subtree carry the same id,
\* parse_resource maps the id to the leaf met first in traversal order.
C17_Original ==
  Built =>
    \A c \in Subtrees(materials) :
       LET pr == parse_resource(c) IN
       (Collides(c) /\ pr.exc = "") =>
          \A k \in DictKeys(pr.val) : pr.val.map[k] = FirstWith(LeafSeq(c), k)

\* C17 (amended): when two leaves below a subtree carry the same id,
\* parse_resource raises only if a category below has no children mapping,
\* and otherwise maps the id to the leaf met last in traversal order.
C17_Amended ==
  Built =>
    \A c \in Subtrees(materials) :
       LET pr == parse_resource(c) IN
       Collides(c) =>
          /\ pr.exc # "" <=> HasNullChildren(c)
          /\ pr.exc = "" =>
               \A k \in DictKeys(pr.val) : pr.val.map[k] = LastWith(LeafSeq(c), k)

\* a subtree with two leaves of one id was flattened
C17_Witness ==
  /\ Built
  /\ \E c \in Subtrees(materials) :
        Collides(c) /\ parse_resource(c).exc = ""

\* C18: a transition whose flatten raised returns normally, leaves the
\* resource set empty and the download button disabled, and leaves every
\* menu with the value, visibility, enabled state and options it had when
\* the flatten started.
C18_FlattenFailureCaught ==
  [][\A key \in Menus : \A v \in Range(options[key]) \cup {Sentinel} :
       (OptionChange(key, v) /\ last'.flat = "failed") =>
          /\ last'.branch = "resolve" /\ last'.exc = ""
          /\ resources' = EmptyDict /\ ~download'
          /\ LET M == FlattenStart(key, v) IN
             /\ value' = M.value /\ visible' = M.visible
             /\ enabled' = M.enabled /\ options' = M.options]_vars

\* a resource set was published and the next flatten raised
C18_Witness ==
  /\ Ran /\ last.had /\ last.flat = "failed" /\ last.exc = ""
  /\ resources = EmptyDict /\ ~download

\* C19 (as stated): before any selection every field holds the sentinel,
\* only the first field is visible and, once the tree is loaded, enabled,
\* and every other field is hidden and disabled.
C19_Original ==
  ~Ran => /\ \A k \in Menus : value[k] = Sentinel
          /\ visible["material_menu"]
          /\ pc = "ready" => enabled["material_menu"]
          /\ \A k \in Menus \ {"material_menu"} : ~visible[k] /\ ~enabled[k]

\* C19 (amended): before any selection every field holds the sentinel and
\* has no options but the first field's; the category, stage and volume
\* fields are hidden and the other four visible; no field is enabled but
\* the first one, which is enabled exactly when the tree has been loaded.
C19_Amended ==
  ~Ran => /\ \A k \in Menus : value[k] = Sentinel
          /\ \A k \in Menus :
               visible[k] <=> k \notin {"category_menu", "stage_menu", "volume_menu"}
          /\ \A k \in Menus \ {"material_menu"} :
               ~enabled[k] /\ options[k] = << >>
          /\ enabled["material_menu"] <=> pc = "ready"

\* the tree is loaded and nothing has been selected yet
C19_Witness ==
  /\ ~Ran /\ pc = "ready" /\ enabled["material_menu"]
  /\ visible["subject_menu"] /\ ~enabled["subject_menu"]
  /\ ~visible["category_menu"]

C22_Claim ==
  pc = "urls" =>
     \E tag_data \in TagPayloads : materials = ExpectedTree(tag_data.hierarchies)

\* C23: after every tick of the monitor, whatever the probe did, exactly one
\* next tick is scheduled and the stored network status is the outcome of
\* the latest probe; ticks keep happening for ever.
C23_MonitorRepeats ==
  /\ [](app.probe # "none" =>
          /\ app.after = 1
          /\ app.network_status = get_network_status(app.probe).connected)
  /\ []<>(app.ticks = 0 /\ app.probe # "none")
  /\ []<>(app.ticks = 1)

\* a probe that raised came after one that succeeded
C23_Witness ==
  /\ app.probe = "RequestException" /\ app.network_status = "False"
  /\ app.network_label = << "*", "wangluo lianjie yichang" >>
  /\ app.ticks = 0 /\ app.after = 1

\* C24: when the value of one of the visible fields up to the triggering
\* field names no child, the transition returns normally, the descent has
\* stopped at the subtree selected by the values before the miss, and the
\* resources published are all those below that subtree.
C24_Claim ==
  (Ran /\ visible[last.key] /\ LatestDescent.miss) =>
     /\ last.exc = ""
     /\ last.branch = "resolve" /\ last.stop
     /\ last.reached = LatestDescent.at
     /\ DictKeys(resources) = Ids(LeavesUnder(LatestDescent.at))

\* C25: after a transition triggered by a field that is not the last visible
\* one and whose descent had no miss, the transition has returned without
\* resolving, the next visible field is enabled only if the reached subtree
\* has a child, and an enabled next field offers exactly the display names
\* of the children of the reached subtree.
C25_Claim ==
  (Ran /\ visible[last.key] /\ ~TriggerIsLast /\ ~LatestDescent.miss) =>
     /\ last.exc = "" /\ last.branch = "populate" /\ last.flat = ""
     /\ last.reached = LatestDescent.at
     /\ enabled[NextShown] =>
          /\ ~Falsy(LatestDescent.at)
          /\ options[NextShown] = ChildNames(LatestDescent.at)

\* C26: the resets made during a transition start no further run of the
\* handler: a change of a field causes exactly one run of _on_option_change,
\* and every cascade variable carries exactly one write callback whenever no
\* handler is running, so that the next change runs the handler again.
C26_SingleRun ==
  /\ \A m \in Menus : traces[m] = 1
  /\ Ran => last.runs = 1

\* the first field was changed while a resource set was published: the
\* fields after it were reset from values the user had picked
C26_Witness ==
  /\ Ran /\ last.key = "material_menu" /\ last.had /\ last.exc = ""
  /\ last.runs = 1
  /\ \A m \in Menus : m # "material_menu" /\ visible[m] => value[m] = Sentinel

\* C27: after any transition, every hidden cascade field holds the sentinel,
\* is disabled and has no entry besides the sentinel entry.
C27_HiddenFieldsReset ==
  Ran => \A m \in Menus :
            ~visible[m] => /\ value[m] = Sentinel
                           /\ ~enabled[m]
                           /\ options[m] = << >>

\* the subject was changed to information technology while a resource set
\* was published: the provider field, shown until then, is hidden
C27_Witness ==
  /\ Ran /\ last.key = "subject_menu" /\ last.had
  /\ value["subject_menu"] = XinXiKeJi
  /\ ~visible["provider_menu"]
  /\ value["provider_menu"] = Sentinel /\ options["provider_menu"] = << >>

\* C28: the walk of every accepted record raises nothing, ends at the
\* deepest category matching the segments after the top tag, and the record
\* is then found under its own id among the children of that category.
C28_Claim ==
  \A i \in DOMAIN log :
     Usable(log[i].res) =>
        /\ log[i].did = "spliced"
        /\ log[i].at = Destination(log[i].res)
        /\ LET c == GetNode(materials, log[i].at).children IN
           ~IsNone(c) /\ log[i].res.id \in DictKeys(c)

\* C29: a record whose first segment after the top tag is no key of the
\* children of the top-level node is skipped: handling it raises nothing,
\* leaves the tree as it was, and the records after it are handled.
C29_Claim ==
  \A i \in DOMAIN log :
     Foreign(log[i].res) =>
        /\ log[i].did = "skipped"
        /\ SpliceRecord(materials, log[i].res) = Skipped(materials)
        /\ i < Len(Received(Len(fetched))) => i < Len(log)

\* C30: no transition ends with an uncaught exception.
C30_Claim == Ran => last.exc = ""

\* C31: after a transition that completed, every cascade field is visible
\* exactly when the rules, evaluated on the values the fields hold after the
\* transition, make it visible.
C31_Claim ==
  Completed => \A m \in Menus : visible[m] = RuleVisible[m]

\* C32: a field other than the first is enabled only if it is visible and
\* the visible field nearest before it holds a selected value found in the
\* tree; the selected values form a prefix of the visible fields, and at
\* most one enabled field holds the sentinel.
C32_EnabledPrefix ==
  /\ \A m \in Menus \ {order[1]} :
        enabled[m] => /\ visible[m]
                      /\ value[ShownBefore(m)] # Sentinel
                      /\ FoundInTree(ShownBefore(m))
  /\ \A i, j \in DOMAIN ShownKeys :
        (i < j /\ value[ShownKeys[j]] # Sentinel) => value[ShownKeys[i]] # Sentinel
  /\ Cardinality({m \in Menus : enabled[m] /\ value[m] = Sentinel}) <= 1

\* two fields hold selected values and the field after them was populated
\* and enabled
C32_Witness ==
  /\ Ran /\ last.branch = "populate" /\ Len(ShownKeys) >= 3
  /\ value[ShownKeys[1]] # Sentinel /\ value[ShownKeys[2]] # Sentinel
  /\ last.key = ShownKeys[2]
  /\ enabled[ShownKeys[3]] /\ value[ShownKeys[3]] = Sentinel
  /\ options[ShownKeys[3]] # << >>

\* C33: a transition triggered by the user's choice of v in field key leaves
\* that value in the field, leaves the entries and the state of the field as
\* they were, and changes neither value, entries nor state of any visible
\* field before it.
C33_FrameOfEarlierFields ==
  [][\A key \in Menus : \A v \in Range(options[key]) \cup {Sentinel} :
        OptionChange(key, v) =>
           /\ value'[key] = v
           /\ options'[key] = options[key]
           /\ enabled'[key] = enabled[key]
           /\ visible'[key]
           /\ \A m \in Menus :
                (visible[m] /\ Pos(m) < Pos(key)) =>
                   /\ value'[m] = value[m]
                   /\ options'[m] = options[m]
                   /\ enabled'[m] = enabled[m]
                   /\ visible'[m]]_vars

\* the third visible field triggered a transition that reset a later field
\* while the two fields before it hold their values
C33_Witness ==
  /\ Ran /\ Len(ShownKeys) >= 4 /\ last.key = ShownKeys[3]
  /\ value[ShownKeys[1]] # Sentinel /\ value[ShownKeys[2]] # Sentinel
  /\ value[ShownKeys[3]] # Sentinel
  /\ enabled[ShownKeys[1]] /\ enabled[ShownKeys[2]] /\ enabled[ShownKeys[3]]
  /\ value[ShownKeys[4]] = Sentinel

\* C34: the tree the cascade works on is the children mapping of the first
\* top-level tag of the built tree; no record spliced below another
\* top-level tag is a leaf of it; and every published resource is a leaf of
\* it.
C34_FirstTagOnly ==
  /\ [][(pc = "returned" /\ pc' = "ready") =>
           self_materials' = materials.map[materials.ord[1]].children]_vars
  /\ [](pc = "returned" /\ ~Falsy(materials) =>
          \A i \in DOMAIN log :
             (log[i].did = "spliced" /\ log[i].at[1] # materials.ord[1]) =>
                log[i].res \notin
                  LeavesUnder(materials.map[materials.ord[1]].children))
  /\ [](\A id \in DictKeys(resources) :
          resources.map[id] \in LeavesUnder(self_materials))

\* r5 is published; it arrives only in the shard that also holds r6, a
\* record of the second top-level tag, which is not published
C34_Witness ==
  /\ pc = "ready" /\ Ran /\ last.flat = "ok"
  /\ DictKeys(resources) = {"r5"}
  /\ r6 \notin LeavesUnder(self_materials)

\* C35: whenever Basic.access_token holds a token, the id of the X-ND-AUTH
\* header of the session is that token.
C35_Claim ==
  (token.access_token # NoneStr /\ token.access_token # "") =>
     token.id = token.access_token

====
